---- MODULE Spec2Model ----
(***************************************************************************)
(* Model of src/src/gazebo_recognition_node.py (class ObjectTracker).      *)
(*                                                                         *)
(* Numbers.  The node computes with floats.  Here every real is an exact   *)
(* rational <<n, d>> (d > 0, lowest terms), and an angle is a number of    *)
(* quarter turns (np.pi = 2, -np.pi/2 = -1), whose sine and cosine are     *)
(* exact.  Statements "within floating tolerance" are checked exactly.     *)
(*                                                                         *)
(* Frames.  A frame is given by what OpenCV finds in it: the contours of   *)
(* the colour mask (bounding box and area of each, in findContours order)  *)
(* and the stage, if any, at which processing that frame raises.           *)
(***************************************************************************)
EXTENDS Integers, Sequences, FiniteSets, TLC

VARIABLES
    \* ---- ObjectTracker fields
    camera_matrix,      \* None, or the 3x3 matrix (rows of K)
    fx, fy, cx, cy,     \* None (attribute not set yet), or the value
    image_width, image_height,
    got_camera_info,
    camera_info_sub,    \* "registered" | "unregistered"
    image_sub,          \* None, or the image subscription
    transform_mat, inv_transform_mat,
    \* ---- the node's outputs
    published,          \* number of markers sent on /detected_object
    logerr,             \* number of rospy.logerr entries
    crashed,            \* an exception left a callback
    \* ---- history of the run
    calibs,             \* calibration messages delivered so far
    first_msg,          \* the first calibration message delivered
    image_subs,         \* image subscriptions created so far
    unregisters,        \* camera_info_sub.unregister() calls so far
    frames,             \* frames delivered so far
    last,               \* what the last delivered frame did
    recalibrated        \* a later calibration message unlike the first was delivered

trackerVars == <<camera_matrix, fx, fy, cx, cy, image_width, image_height,
                 got_camera_info, camera_info_sub, image_sub,
                 transform_mat, inv_transform_mat>>
vars == <<camera_matrix, fx, fy, cx, cy, image_width, image_height,
          got_camera_info, camera_info_sub, image_sub,
          transform_mat, inv_transform_mat,
          published, logerr, crashed,
          calibs, first_msg, image_subs, unregisters, frames, last, recalibrated>>

\* An unset field is the empty tuple, a set one the 1-tuple of its value.
None == <<>>
Some(v) == <<v>>
Val(o) == o[1]

\* ------------------------------------------------------------------ bounds
MaxCalibs == 2
MaxFrames == 2
MaxFocal == 2

\* ------------------------------------------------------- exact arithmetic
Abs(n) == IF n < 0 THEN -n ELSE n

RECURSIVE GCD(_, _)
GCD(a, b) == IF b = 0 THEN a ELSE GCD(b, a % b)

\* n/d in lowest terms with a positive denominator.
Rat(n, d) ==
    IF d = 1 THEN <<n, 1>>
    ELSE IF n = 0 THEN <<0, 1>>
    ELSE LET g == GCD(Abs(n), Abs(d))
             s == IF d < 0 THEN -1 ELSE 1
         IN  <<(s * n) \div g, (s * d) \div g>>

Float(n) == <<n, 1>>
RAdd(a, b) ==
    IF a[1] = 0 THEN b
    ELSE IF b[1] = 0 THEN a
    ELSE Rat(a[1] * b[2] + b[1] * a[2], a[2] * b[2])
RNeg(a) == <<-a[1], a[2]>>
RSub(a, b) == RAdd(a, RNeg(b))
RMul(a, b) ==
    IF a[1] = 0 \/ b[1] = 0 THEN <<0, 1>>
    ELSE Rat(a[1] * b[1], a[2] * b[2])
RDiv(a, b) == Rat(a[1] * b[2], a[2] * b[1])
RLess(a, b) == a[1] * b[2] < b[1] * a[2]
RAbs(a) == <<Abs(a[1]), a[2]>>

\* ------------------------------------------------------------- matrices
eye4 == [i \in 1..4 |-> [j \in 1..4 |-> IF i = j THEN Float(1) ELSE Float(0)]]

matmul(A, B) ==
    [i \in 1..4 |-> [j \in 1..4 |->
        RAdd(RAdd(RMul(A[i][1], B[1][j]), RMul(A[i][2], B[2][j])),
             RAdd(RMul(A[i][3], B[3][j]), RMul(A[i][4], B[4][j])))]]

matvec(A, v) ==
    [i \in 1..4 |->
        RAdd(RAdd(RMul(A[i][1], v[1]), RMul(A[i][2], v[2])),
             RAdd(RMul(A[i][3], v[3]), RMul(A[i][4], v[4])))]

Cos(q) == LET r == q % 4 IN IF r = 0 THEN 1 ELSE IF r = 2 THEN -1 ELSE 0
Sin(q) == LET r == q % 4 IN IF r = 1 THEN 1 ELSE IF r = 3 THEN -1 ELSE 0

\* tf.transformations.rotation_matrix(angle, direction) for a unit axis:
\* R = cos*I + (1 - cos)*d*d^T + sin*[d]x, placed in a 4x4 identity.
rotation_matrix(q, d) ==
    LET c == Cos(q)
        s == Sin(q)
        skew == <<<<0, -d[3], d[2]>>, <<d[3], 0, -d[1]>>, <<-d[2], d[1], 0>>>>
    IN  [i \in 1..4 |-> [j \in 1..4 |->
            IF i = 4 \/ j = 4
            THEN (IF i = j THEN Float(1) ELSE Float(0))
            ELSE Float((IF i = j THEN c ELSE 0) + (1 - c) * d[i] * d[j]
                     + s * skew[i][j])]]

Minor(M, i, j) ==
    [r \in 1..3 |-> [c \in 1..3 |->
        M[IF r < i THEN r ELSE r + 1][IF c < j THEN c ELSE c + 1]]]

Det3(A) ==
    RAdd(RSub(RMul(A[1][1], RSub(RMul(A[2][2], A[3][3]), RMul(A[2][3], A[3][2]))),
              RMul(A[1][2], RSub(RMul(A[2][1], A[3][3]), RMul(A[2][3], A[3][1])))),
         RMul(A[1][3], RSub(RMul(A[2][1], A[3][2]), RMul(A[2][2], A[3][1]))))

Sign(k) == IF k % 2 = 0 THEN Float(1) ELSE Float(-1)

Det4(M) ==
    RAdd(RAdd(RMul(M[1][1], Det3(Minor(M, 1, 1))),
              RNeg(RMul(M[1][2], Det3(Minor(M, 1, 2))))),
         RAdd(RMul(M[1][3], Det3(Minor(M, 1, 3))),
              RNeg(RMul(M[1][4], Det3(Minor(M, 1, 4))))))

\* A plausible slip: the transpose taken for the inverse (right for a pure
\* rotation, wrong once the translation is in the matrix).
linalg_inv_transposed(M) == [i \in 1..4 |-> [j \in 1..4 |-> M[j][i]]]

\* np.linalg.inv: the matrix inverse, here by cofactors.
linalg_inv(M) ==
    LET det == Det4(M)
    IN  [i \in 1..4 |-> [j \in 1..4 |->
            RDiv(RMul(Sign(i + j), Det3(Minor(M, j, i))), det)]]

\* ------------------------------------------------ setup_transforms (33-63)
XAxis == <<1, 0, 0>>
YAxis == <<0, 1, 0>>
ZAxis == <<0, 0, 1>>

rot_x_pi == rotation_matrix(2, XAxis)
rot_x_minus_pi_2 == rotation_matrix(-1, XAxis)
rot_z_minus_pi_2 == rotation_matrix(-1, ZAxis)
align_rot_y == rotation_matrix(-1, YAxis)
align_rot_z == rotation_matrix(2, ZAxis)
align_rot == matmul(align_rot_z, align_rot_y)

\* A plausible slip: the computed rot_x_pi multiplied into the product.
rot_mat_with_rot_x_pi ==
    matmul(matmul(matmul(align_rot, rot_z_minus_pi_2), rot_x_minus_pi_2), rot_x_pi)

rot_mat == matmul(matmul(align_rot, rot_z_minus_pi_2), rot_x_minus_pi_2)

\* The camera mount offset [0.2785, 0.0125, 0.0167].
translation == <<Rat(2785, 10000), Rat(125, 10000), Rat(167, 10000)>>

trans_mat ==
    [i \in 1..4 |-> [j \in 1..4 |->
        IF j = 4 /\ i < 4 THEN translation[i] ELSE eye4[i][j]]]

setup_transform_mat == matmul(trans_mat, rot_mat)
setup_inv_transform_mat == linalg_inv(setup_transform_mat)

\* transform_point (65-69).
transform_point(point_camera) ==
    LET point_h == <<point_camera[1], point_camera[2], point_camera[3], Float(1)>>
        point_trunk == matvec(inv_transform_mat, point_h)
    IN  <<point_trunk[1], point_trunk[2], point_trunk[3]>>

\* ------------------------------------------------------------------ inputs
\* Image sizes (width, height) a calibration message announces.
Dims == {<<4, 2>>, <<3, 3>>}

\* sensor_msgs/CameraInfo: K (row-major 3x3), width, height.
CameraInfo(f, g, w, h) ==
    [K |-> <<f, 0, w \div 2, 0, g, h \div 2, 0, 0, 1>>, width |-> w, height |-> h]

CalibMsgs == {CameraInfo(f, f + 1, d[1], d[2]) : f \in 1..MaxFocal, d \in Dims}

\* A contour of the mask: its bounding box (cv2.boundingRect) and its area
\* (cv2.contourArea).  The blobs are squares of 1 or 2 pixels a side, whose
\* contour encloses (w - 1) * (h - 1).
Contours ==
    {[x |-> x, y |-> y, w |-> s, h |-> s, area |-> (s - 1) * (s - 1)] :
        x \in 0..1, y \in 0..1, s \in 1..2}

\* findContours returns no, one or two contours.
ContourCounts == 0..2
ContourLists == UNION {[1..n -> Contours] : n \in ContourCounts}

\* The stages of image_callback's try block, in order.
EarlyStages == {"decode", "flip", "cvtColor", "segment"}
LateStages == {"project", "transform", "publish", "render"}
Stages == EarlyStages \cup LateStages

\* A frame: the contours found in it and the stage that raises on it ("none":
\* no stage does).  A stage after the contour test raises only if reached, so
\* the frames that raise there are taken with one contour.
Frames ==
    {[contours |-> <<>>, fault |-> f] : f \in EarlyStages}
    \cup [contours : ContourLists, fault : {"none"}]
    \cup {[contours |-> <<c>>, fault |-> f] : c \in Contours, f \in LateStages}

\* ------------------------------------------------------------ __init__
NoFrame ==
    [kind |-> "none", detected |-> FALSE, raised |-> "none", reached |-> {},
     emitted |-> FALSE, box |-> None, point_camera |-> None, point_trunk |-> None,
     marker |-> None]

Init ==
    /\ camera_matrix = None
    /\ image_width = None
    /\ image_height = None
    /\ got_camera_info = FALSE
    /\ fx = None /\ fy = None /\ cx = None /\ cy = None
    /\ camera_info_sub = "registered"
    /\ image_sub = None
    /\ transform_mat = setup_transform_mat
    /\ inv_transform_mat = setup_inv_transform_mat
    /\ published = 0 /\ logerr = 0 /\ crashed = FALSE
    /\ calibs = 0 /\ first_msg = None /\ image_subs = 0 /\ unregisters = 0
    /\ frames = 0 /\ last = NoFrame /\ recalibrated = FALSE

\* ------------------------------------------- camera_info_callback (71-88)
\* np.array(msg.K).reshape(3, 3)
reshape3x3(K) == <<<<K[1], K[2], K[3]>>, <<K[4], K[5], K[6]>>, <<K[7], K[8], K[9]>>>>

\* A plausible slip: the guard dropped, every message stored.
StoreAlways == TRUE

\* The guard of line 72.
StoreIntrinsics == ~got_camera_info

camera_info_callback(msg) ==
    /\ calibs < MaxCalibs
    /\ calibs' = calibs + 1
    /\ first_msg' = IF calibs = 0 THEN Some(msg) ELSE first_msg
    /\ recalibrated' =
        (recalibrated \/ (calibs > 0 /\ msg.K # Val(first_msg).K
                                    /\ msg.width # Val(first_msg).width))
    /\ IF StoreIntrinsics
       THEN /\ camera_matrix' = Some(reshape3x3(msg.K))
            /\ fx' = Some(reshape3x3(msg.K)[1][1])
            /\ fy' = Some(reshape3x3(msg.K)[2][2])
            /\ cx' = Some(reshape3x3(msg.K)[1][3])
            /\ cy' = Some(reshape3x3(msg.K)[2][3])
            /\ image_width' = Some(msg.width)
            /\ image_height' = Some(msg.height)
            /\ got_camera_info' = TRUE
            /\ image_sub' = Some("image_raw")
            /\ image_subs' = image_subs + 1
            /\ camera_info_sub' = "unregistered"
            /\ unregisters' = unregisters + 1
       ELSE UNCHANGED <<camera_matrix, fx, fy, cx, cy, image_width, image_height,
                        got_camera_info, image_sub, image_subs, camera_info_sub,
                        unregisters>>
    /\ UNCHANGED <<transform_mat, inv_transform_mat, published, logerr, crashed,
                   frames, last>>

\* ------------------------------------------------- image_callback (90-134)
StageOrder ==
    <<"decode", "flip", "cvtColor", "segment", "project", "transform",
      "publish", "render">>

StageIndex == [st \in Stages |-> CHOOSE i \in 1..Len(StageOrder) : StageOrder[i] = st]

\* The stages entered when stage st raises.
UpTo == [st \in Stages |-> {u \in Stages : StageIndex[u] <= StageIndex[st]}]

\* max(contours, key=cv2.contourArea): the first contour of the largest area.
largest_contour(contours) ==
    contours[CHOOSE i \in 1..Len(contours) :
        /\ \A j \in 1..Len(contours) : contours[j].area <= contours[i].area
        /\ \A j \in 1..(i - 1) : contours[j].area < contours[i].area]

depth == 1

\* A plausible slip: one of the two negations of the lateral offset lost.
point_camera_one_negation(c) ==
    LET center_x == RAdd(Float(c.x), RDiv(Float(c.w), Float(2)))
        center_y == RAdd(Float(c.y), RDiv(Float(c.h), Float(2)))
        cam_x == RNeg(RDiv(RSub(center_x, RDiv(Float(Val(image_width)), Float(2))), Float(Val(fx))))
        cam_y == RNeg(RDiv(RSub(center_y, RDiv(Float(Val(image_height)), Float(2))), Float(Val(fy))))
    IN  <<Float(depth), RMul(cam_x, Float(depth)), RMul(RNeg(cam_y), Float(depth))>>

\* Lines 107-121: the camera-frame ray of the bounding box c.
point_camera_of(c) ==
    LET center_x == RAdd(Float(c.x), RDiv(Float(c.w), Float(2)))
        center_y == RAdd(Float(c.y), RDiv(Float(c.h), Float(2)))
        cam_x == RNeg(RDiv(RSub(center_x, RDiv(Float(Val(image_width)), Float(2))), Float(Val(fx))))
        cam_y == RNeg(RDiv(RSub(center_y, RDiv(Float(Val(image_height)), Float(2))), Float(Val(fy))))
    IN  <<Float(depth), RMul(RNeg(cam_x), Float(depth)), RMul(RNeg(cam_y), Float(depth))>>

\* publish_marker (136-171).  Orientation (yaw, pitch) and scale.x (the norm)
\* are functions of the direction (dx, dy, dz), which stands for them here.
marker_of(point_trunk) ==
    [frame_id |-> "trunk", type |-> "ARROW", position |-> <<0, 0, 0>>,
     direction |-> point_trunk]

\* A plausible slip: the decode call left above the try statement.
TryCoversAfterDecode(st) == st \in Stages \ {"decode"}

\* The try block (94-133) holds every stage; except Exception catches it.
TryCovers(st) == st \in Stages

\* A plausible slip: the readiness test dropped.
NeverNotReady == FALSE

\* The guard of line 91.
NotReady == ~got_camera_info

\* A plausible slip: the publish_marker call of line 125 lost.
PublishSkipped(raiseAt) == FALSE

\* The marker is out (line 125) once nothing up to publish_marker raised.
Published(raiseAt) == raiseAt \in {"render", "none"}

image_callback(msg) ==
    /\ frames < MaxFrames
    /\ frames' = frames + 1
    /\ IF NotReady
       THEN /\ last' = [NoFrame EXCEPT !.kind = "dropped"]
            /\ UNCHANGED <<published, logerr, crashed>>
       ELSE LET detected == msg.contours # <<>>
                \* the stage that raises: the frame's fault if reached; with no
                \* intrinsics, None / 2 on line 112.
                raiseAt ==
                    IF msg.fault \in EarlyStages THEN msg.fault
                    ELSE IF ~detected THEN "none"
                    ELSE IF image_width = None \/ fx = None THEN "project"
                    ELSE msg.fault
                reached ==
                    IF raiseAt # "none" THEN UpTo[raiseAt]
                    ELSE IF detected THEN Stages ELSE EarlyStages
                done == IF raiseAt = "none" THEN reached ELSE reached \ {raiseAt}
                out == detected /\ Published(raiseAt)
                caught == raiseAt # "none" /\ TryCovers(raiseAt)
            IN  \E point_camera \in
                    {IF "project" \in done
                     THEN point_camera_of(largest_contour(msg.contours)) ELSE None} :
                \E point_trunk \in
                    {IF "transform" \in done
                     THEN transform_point(point_camera) ELSE None} :
                    \* the frame's locals are kept when its marker went out
                    /\ last' = [kind |-> "processed", detected |-> detected,
                                raised |-> raiseAt, reached |-> reached,
                                emitted |-> out,
                                box |-> IF out THEN Some(largest_contour(msg.contours))
                                        ELSE None,
                                point_camera |-> IF out THEN point_camera ELSE None,
                                point_trunk |-> IF out THEN point_trunk ELSE None,
                                marker |-> IF out THEN Some(marker_of(point_trunk))
                                           ELSE None]
                    /\ published' = published + (IF out THEN 1 ELSE 0)
                    /\ logerr' = logerr + (IF caught THEN 1 ELSE 0)
                    /\ crashed' = (crashed \/ (raiseAt # "none" /\ ~caught))
    /\ UNCHANGED <<trackerVars, calibs, first_msg, image_subs, unregisters, recalibrated>>

\* ----------------------------------------------------------- rospy.spin
Next ==
    \/ \E msg \in CalibMsgs : camera_info_callback(msg)
    \/ \E msg \in Frames : image_callback(msg)

Spec == Init /\ [][Next]_vars

\* ================================================================ claims

AllIntrinsicsSet ==
    /\ fx # None /\ fy # None /\ cx # None /\ cy # None
    /\ image_width # None /\ image_height # None

\* C1. Calibration idempotence: whatever calibration messages have been
\* delivered, camera_matrix, fx, fy, cx, cy, image_width and image_height hold
\* the values of the first one.
C1_CalibrationIdempotence ==
    first_msg # None =>
        LET K == Val(first_msg).K
        IN  /\ camera_matrix = Some(<<<<K[1], K[2], K[3]>>, <<K[4], K[5], K[6]>>,
                                      <<K[7], K[8], K[9]>>>>)
            /\ fx = Some(K[1]) /\ fy = Some(K[5])
            /\ cx = Some(K[3]) /\ cy = Some(K[6])
            /\ image_width = Some(Val(first_msg).width)
            /\ image_height = Some(Val(first_msg).height)

\* A later message with another matrix and other dimensions was delivered.
C1_Witness ==
    /\ calibs >= 2 /\ recalibrated
    /\ fx = Some(Val(first_msg).K[1])

\* C2. Readiness gating: a frame enters a stage of processing only when all
\* six intrinsics are set; a frame delivered before calibration publishes
\* nothing, logs nothing and changes no field of the tracker.
C2_ReadinessGating ==
    [][frames' = frames + 1 =>
        /\ last'.reached # {} => AllIntrinsicsSet
        /\ ~got_camera_info =>
            /\ last'.reached = {} /\ ~last'.emitted
            /\ published' = published /\ logerr' = logerr /\ crashed' = crashed
            /\ UNCHANGED trackerVars]_vars

C2_Witness ==
    /\ ~got_camera_info /\ frames > 0 /\ last.kind = "dropped"
    /\ published = 0 /\ logerr = 0

\* C3. Emission count: once calibrated, a frame with a contour and no
\* exception publishes exactly one marker, a frame with no contour publishes
\* none, and the markers published never outnumber the frames received.
C3_EmissionCount ==
    /\ [](published <= frames)
    /\ [][(frames' = frames + 1 /\ got_camera_info) =>
            /\ (last'.detected /\ last'.raised = "none") => published' = published + 1
            /\ ~last'.detected => published' = published]_vars

C3_Witness ==
    /\ frames = 2 /\ published = 1
    /\ last.kind = "processed" /\ ~last.detected /\ last.raised = "none"

\* C4. Failed frame produces no output: a frame on which any stage of
\* image_callback raised has published no marker.
C4_FailedFrameNoOutput ==
    (last.kind = "processed" /\ last.raised # "none") => ~last.emitted

\* C5. Failure containment: an exception in a frame is logged and does not
\* leave image_callback; the tracker stays in STREAMING with its intrinsics
\* and transforms unchanged, and a later frame with a detection is emitted.
C5_FailureContainment ==
    [][frames' = frames + 1 =>
        /\ last'.raised # "none" =>
            /\ logerr' = logerr + 1 /\ ~crashed'
            /\ got_camera_info' /\ UNCHANGED trackerVars
        /\ (got_camera_info /\ logerr > 0 /\ last'.detected /\ last'.raised = "none") =>
            /\ last'.emitted /\ published' = published + 1]_vars

C5_Witness ==
    /\ logerr > 0 /\ ~crashed /\ got_camera_info
    /\ last.emitted /\ last.raised = "none"

\* C6. One-way calibration: before the first calibration message there is no
\* image subscription; after it the tracker is STREAMING, exactly one image
\* subscription was created and the calibration subscription was torn down
\* once, whatever arrives later; got_camera_info never goes back to False.
C6_OneWayCalibration ==
    /\ [](/\ calibs = 0 =>
              /\ ~got_camera_info /\ image_sub = None /\ image_subs = 0
              /\ camera_info_sub = "registered" /\ unregisters = 0
          /\ calibs > 0 =>
              /\ got_camera_info /\ image_sub # None /\ image_subs = 1
              /\ camera_info_sub = "unregistered" /\ unregisters = 1)
    /\ [][got_camera_info => got_camera_info']_vars

C6_Witness ==
    /\ calibs >= 2 /\ frames >= 1 /\ got_camera_info /\ image_subs = 1

\* C7. Forward-axis alignment: for the camera-frame ray (1, 0, 0) of a
\* centroid at the image centre, the body-frame direction has a positive X
\* component larger in magnitude than its Y and Z components.
C7_ForwardAxisAlignment ==
    (last.emitted /\ last.point_camera = <<Float(1), Float(0), Float(0)>>) =>
        LET p == last.point_trunk
        IN  /\ RLess(Float(0), p[1])
            /\ RLess(RAbs(p[2]), RAbs(p[1]))
            /\ RLess(RAbs(p[3]), RAbs(p[1]))

\* The centre of a bounding box, and its mirror image about the image centre.
CenterX2(c) == 2 * c.x + c.w
Mirrored(c, e) ==
    /\ CenterX2(c) + CenterX2(e) = 2 * Val(image_width)
    /\ c.y = e.y /\ c.h = e.h

\* C8. Projection sign convention: the ray of a bounding box is
\* (1, nx, ny) with nx = (center_x - width/2)/fx and ny = (center_y -
\* height/2)/fy, (1, 0, 0) at the image centre; boxes mirrored about the
\* image centre give equal forward and vertical components and opposite
\* lateral components.
C8_ProjectionSign ==
    /\ last.emitted =>
        LET b == Val(last.box)
            nx == Rat(2 * b.x + b.w - Val(image_width), 2 * Val(fx))
            ny == Rat(2 * b.y + b.h - Val(image_height), 2 * Val(fy))
        IN  /\ last.point_camera = <<Float(1), nx, ny>>
            /\ (2 * b.x + b.w = Val(image_width) /\ 2 * b.y + b.h = Val(image_height))
                   => last.point_camera = <<Float(1), Float(0), Float(0)>>
    /\ got_camera_info =>
        \A c, e \in Contours :
            Mirrored(c, e) =>
                /\ point_camera_of(c)[1] = point_camera_of(e)[1]
                /\ point_camera_of(c)[3] = point_camera_of(e)[3]
                /\ point_camera_of(c)[2] = RNeg(point_camera_of(e)[2])

\* A box right of the centre was projected, and its mirror image exists.
C8_Witness ==
    /\ last.emitted
    /\ RLess(Float(0), last.point_camera[2])
    /\ \E e \in Contours : Mirrored(Val(last.box), e)

SamplePoints == {<<Float(p[1]), Float(p[2]), Rat(p[3], 2)>> : p \in [1..3 -> {-1, 3}]}

\* C9. Extrinsic invertibility: transform_mat * inv_transform_mat is the
\* identity; a point mapped through transform_mat and then through
\* transform_point comes back; no callback changes either matrix.
C9_ExtrinsicInvertible ==
    /\ matmul(transform_mat, inv_transform_mat) = eye4
    /\ \A p \in SamplePoints :
        LET q == matvec(transform_mat, <<p[1], p[2], p[3], Float(1)>>)
        IN  transform_point(<<q[1], q[2], q[3]>>) = p
    /\ transform_mat = setup_transform_mat
    /\ inv_transform_mat = setup_inv_transform_mat

C9_Witness ==
    /\ calibs > 0 /\ last.emitted /\ logerr > 0
    /\ matmul(transform_mat, inv_transform_mat) = eye4

RotBlock(M) == [i \in 1..3 |-> [j \in 1..3 |-> M[i][j]]]

====
